---------------------------- MODULE Spec2Model ----------------------------
(***************************************************************************)
(* Implied-inflation pipeline of src/app.py (Tesouro Direto):              *)
(* filter by reference date, split into Prefixado / Tesouro IPCA+ rows,    *)
(* nearest-maturity match (cKDTree over YYYYMMDD integers), the implied    *)
(* inflation formula, and the linear interpolation (interp1d with          *)
(* fill_value="extrapolate") of the IPCA+ curve at the chosen maturity.    *)
(*                                                                         *)
(* Floating-point numbers are modelled as exact rationals extended with    *)
(* the IEEE special values (nan, +inf, -inf); binary rounding of float64   *)
(* is not modelled.  The sort of sort_values and the leaf scan of cKDTree  *)
(* are modelled as they behave for at most 16 rows (insertion sort, one    *)
(* leaf), which covers every frame this model builds.                      *)
(***************************************************************************)
EXTENDS Integers, Sequences, FiniteSets, TLC

VARIABLES df, data_base_input, vencimento_input, pc, warnings,
          df_filtered, df_prefixado, df_ipca, df_ipca_sorted, tree,
          f_interp, taxa_ipca_interpolada, df_resultado

vars == <<df, data_base_input, vencimento_input, pc, warnings,
          df_filtered, df_prefixado, df_ipca, df_ipca_sorted, tree,
          f_interp, taxa_ipca_interpolada, df_resultado>>

\* Largest number of rows of a loaded table in the maturity-curve family.
MaxRows == 4

\* Largest number of rows of a loaded table in the type-name family.
MaxTitulos == 3

---------------------------------------------------------------------------
(* float64 values: rationals n/d in lowest terms (d > 0), nan, +inf, -inf *)

Abs(i) == IF i < 0 THEN -i ELSE i

Sign(i) == IF i < 0 THEN -1 ELSE IF i > 0 THEN 1 ELSE 0

RECURSIVE GCD(_, _)
GCD(a, b) == IF b = 0 THEN a ELSE GCD(b, a % b)

NaN == [k |-> "nan", n |-> 0, d |-> 0]

Inf(s) == [k |-> "inf", n |-> s, d |-> 0]

\* The float n/d, d # 0.
Rat(n, d) ==
    LET g == GCD(Abs(n), Abs(d))
    IN  [k |-> "fin", n |-> Sign(d) * (n \div g), d |-> Abs(d) \div g]

IsNaN(a) == a.k = "nan"

IsFinite(a) == a.k = "fin"

FNeg(a) == [a EXCEPT !.n = -a.n]

FAdd(a, b) ==
    IF IsNaN(a) \/ IsNaN(b) THEN NaN
    ELSE IF a.k = "inf" /\ b.k = "inf" THEN (IF a.n = b.n THEN a ELSE NaN)
    ELSE IF a.k = "inf" THEN a
    ELSE IF b.k = "inf" THEN b
    ELSE LET g == GCD(a.d, b.d)
         IN  Rat(a.n * (b.d \div g) + b.n * (a.d \div g), (a.d \div g) * b.d)

FSub(a, b) == FAdd(a, FNeg(b))

FMul(a, b) ==
    IF IsNaN(a) \/ IsNaN(b) THEN NaN
    ELSE IF a.k = "inf" \/ b.k = "inf"
         THEN (IF a.n = 0 \/ b.n = 0 THEN NaN ELSE Inf(Sign(a.n) * Sign(b.n)))
    ELSE IF a.n = 0 \/ b.n = 0 THEN Rat(0, 1)
    ELSE LET g1 == GCD(Abs(a.n), b.d)
             g2 == GCD(Abs(b.n), a.d)
         IN  Rat((a.n \div g1) * (b.n \div g2), (a.d \div g2) * (b.d \div g1))

FDiv(a, b) ==
    IF IsNaN(a) \/ IsNaN(b) THEN NaN
    ELSE IF b.k = "inf" THEN (IF a.k = "inf" THEN NaN ELSE Rat(0, 1))
    ELSE IF b.n = 0
         THEN (IF a.n = 0 THEN NaN ELSE Inf(Sign(a.n)))
    ELSE IF a.k = "inf" THEN Inf(Sign(a.n) * Sign(b.n))
    ELSE FMul(a, Rat(b.d, b.n))

---------------------------------------------------------------------------
(* dates and their YYYYMMDD integers *)

Data(y, m, d) == [y |-> y, m |-> m, d |-> d]

\* The missing date that np.nan stands for in a date column.
NaT == [y |-> 0, m |-> 0, d |-> 0]

\* strftime("%Y%m%d") read back as an integer.
VencimentoNum(date) == date.y * 10000 + date.m * 100 + date.d

---------------------------------------------------------------------------
(* type names and the case-insensitive patterns of str.contains *)

Chars(s) ==
    CASE s = "Tesouro Prefixado" ->
           <<"T","e","s","o","u","r","o"," ","P","r","e","f","i","x","a","d","o">>
      [] s = "TESOURO PREFIXADO" ->
           <<"T","E","S","O","U","R","O"," ","P","R","E","F","I","X","A","D","O">>
      [] s = "Tesouro Prefixado com Juros Semestrais" ->
           <<"T","e","s","o","u","r","o"," ","P","r","e","f","i","x","a","d","o"," ","c","o","m"," ","J","u","r","o","s"," ","S","e","m","e","s","t","r","a","i","s">>
      [] s = "Tesouro IPCA+" ->
           <<"T","e","s","o","u","r","o"," ","I","P","C","A","+">>
      [] s = "tesouro ipca+" ->
           <<"t","e","s","o","u","r","o"," ","i","p","c","a","+">>
      [] s = "Tesouro IPCA+ com Juros Semestrais" ->
           <<"T","e","s","o","u","r","o"," ","I","P","C","A","+"," ","c","o","m"," ","J","u","r","o","s"," ","S","e","m","e","s","t","r","a","i","s">>
      [] s = "Tesouro Selic" ->
           <<"T","e","s","o","u","r","o"," ","S","e","l","i","c">>

PatPrefixado == <<"P","r","e","f","i","x","a","d","o">>

PatJurosSemestrais == <<"J","u","r","o","s"," ","S","e","m","e","s","t","r","a","i","s">>

PatTesouroIPCA == <<"T","e","s","o","u","r","o"," ","I","P","C","A","+">>

UpperCase == <<"A","B","C","D","E","F","G","H","I","J","K","L","M","N","O","P","Q","R","S","T","U","V","W","X","Y","Z">>

LowerCase == <<"a","b","c","d","e","f","g","h","i","j","k","l","m","n","o","p","q","r","s","t","u","v","w","x","y","z">>
IndexOf(c, alphabet) ==
    IF \E i \in 1..Len(alphabet) : alphabet[i] = c
    THEN CHOOSE i \in 1..Len(alphabet) : alphabet[i] = c
    ELSE 0

\* Variant: the comparison keeps the case of both sides.
LowerChar_Id(c) == c

\* re.IGNORECASE: both sides are compared in lower case.
LowerChar(c) ==
    LET i == IndexOf(c, UpperCase)
    IN  IF i = 0 THEN c ELSE LowerCase[i]

Lower(s) == [i \in 1..Len(s) |-> LowerChar(s[i])]

\* re.search(pat, s, re.IGNORECASE) for a literal pattern.
Contains(s, pat) ==
    LET ls == Lower(s)
        lp == Lower(pat)
    IN  \E i \in 1..(Len(s) - Len(pat) + 1) :
            SubSeq(ls, i, i + Len(pat) - 1) = lp

\* re.search(pat + "$", s, re.IGNORECASE) for a literal pattern.
ContainsAtEnd(s, pat) ==
    /\ Len(s) >= Len(pat)
    /\ SubSeq(Lower(s), Len(s) - Len(pat) + 1, Len(s)) = Lower(pat)

IsPrefixado(row) ==
    /\ Contains(Chars(row.Tipo_Titulo), PatPrefixado)
    /\ ~Contains(Chars(row.Tipo_Titulo), PatJurosSemestrais)

IsIpca(row) == ContainsAtEnd(Chars(row.Tipo_Titulo), PatTesouroIPCA)

---------------------------------------------------------------------------
(* the loaded table: rows of PrecoTaxaTesouroDireto.csv *)

Quote(base, tipo, venc, taxa) ==
    [Data_Base |-> base, Tipo_Titulo |-> tipo,
     Data_Vencimento |-> venc, Taxa_Compra_Manha |-> taxa]

Base1 == Data(2025, 3, 10)
Base2 == Data(2025, 3, 11)
Base3 == Data(2025, 3, 12)

\* Quotes of one reference date along the maturity curve; two IPCA+ quotes
\* share the maturity 2026-01-01.
CurveQuotes ==
    { Quote(Base1, "Tesouro Prefixado", Data(2026, 12, 31), Rat(1200, 100)),
      Quote(Base1, "Tesouro Prefixado", Data(2027, 1, 1), Rat(1050, 100)),
      Quote(Base1, "Tesouro IPCA+", Data(2026, 1, 1), Rat(500, 100)),
      Quote(Base1, "Tesouro IPCA+", Data(2026, 1, 1), Rat(600, 100)),
      Quote(Base1, "Tesouro IPCA+", Data(2026, 6, 30), Rat(500, 100)),
      Quote(Base1, "Tesouro IPCA+", Data(2027, 1, 1), Rat(600, 100)),
      Quote(Base1, "Tesouro IPCA+", Data(2028, 1, 1), Rat(600, 100)) }

TipoTaxa(tipo) ==
    IF Contains(Chars(tipo), PatPrefixado) THEN Rat(1050, 100)
    ELSE IF Contains(Chars(tipo), PatTesouroIPCA) THEN Rat(600, 100)
    ELSE Rat(10, 100)

\* Quotes of every type name on one reference date and of three on another.
NameQuotes ==
    { Quote(Base1, tipo, Data(2027, 1, 1), TipoTaxa(tipo)) :
        tipo \in { "Tesouro Prefixado", "TESOURO PREFIXADO",
                   "Tesouro Prefixado com Juros Semestrais",
                   "Tesouro IPCA+", "tesouro ipca+",
                   "Tesouro IPCA+ com Juros Semestrais", "Tesouro Selic" } }
    \cup
    { Quote(Base3, tipo, Data(2027, 1, 1), TipoTaxa(tipo)) :
        tipo \in { "Tesouro Prefixado", "Tesouro IPCA+", "Tesouro Selic" } }

\* The maturities the user may ask the interpolation for.
VencimentoInputs ==
    { Data(2025, 1, 1), Data(2027, 1, 1), Data(2030, 1, 1) }

\* Non-empty tables of at most n rows over a set of quotes; idx is the
\* DataFrame index label of the row.
Tables(quotes, n) ==
    UNION { { [i \in 1..k |-> [idx |-> i] @@ qs[i]] : qs \in [1..k -> quotes] }
            : k \in 1..n }

DataNum(date) == VencimentoNum(date)

SeqMin(s) == CHOOSE x \in {s[i] : i \in 1..Len(s)} :
                 \A i \in 1..Len(s) : x <= s[i]

SeqMax(s) == CHOOSE x \in {s[i] : i \in 1..Len(s)} :
                 \A i \in 1..Len(s) : x >= s[i]

\* st.date_input(min_value = min of Data Base, max_value = max of Data Base)
DateInputs(table) ==
    LET bases == [i \in 1..Len(table) |-> DataNum(table[i].Data_Base)]
    IN  { b \in {Base1, Base2, Base3} :
            SeqMin(bases) <= DataNum(b) /\ DataNum(b) <= SeqMax(bases) }

Init ==
    /\ \/ /\ df \in Tables(CurveQuotes, MaxRows)
          /\ vencimento_input \in VencimentoInputs
       \/ /\ df \in Tables(NameQuotes, MaxTitulos)
          /\ vencimento_input = Data(2027, 1, 1)
    /\ data_base_input \in DateInputs(df)
    /\ pc = "filter"
    /\ warnings = <<>>
    /\ df_filtered = <<>>
    /\ df_prefixado = <<>>
    /\ df_ipca = <<>>
    /\ df_ipca_sorted = <<>>
    /\ tree = <<>>
    /\ f_interp = <<>>
    /\ taxa_ipca_interpolada = NaN
    /\ df_resultado = <<>>

---------------------------------------------------------------------------
(* the steps of the script *)

Empty(frame) == Len(frame) = 0

\* df[df["Data Base"] == data_base_input]
filter_data(table, base) == SelectSeq(table, LAMBDA row : row.Data_Base = base)

FilterData ==
    /\ pc = "filter"
    /\ df_filtered' = filter_data(df, data_base_input)
    /\ pc' = "check_filtered"
    /\ UNCHANGED <<df, data_base_input, vencimento_input, warnings,
                   df_prefixado, df_ipca, df_ipca_sorted, tree, f_interp,
                   taxa_ipca_interpolada, df_resultado>>

SemTitulos == Empty(df_filtered)

WarnSemTitulos ==
    /\ pc = "check_filtered"
    /\ SemTitulos
    /\ warnings' = Append(warnings, "Nenhum titulo disponivel")
    /\ pc' = "stopped"
    /\ UNCHANGED <<df, data_base_input, vencimento_input, df_filtered,
                   df_prefixado, df_ipca, df_ipca_sorted, tree, f_interp,
                   taxa_ipca_interpolada, df_resultado>>

SelectPrefixado(frame) == SelectSeq(frame, IsPrefixado)

SelectIpca(frame) == SelectSeq(frame, IsIpca)

SepararTitulos ==
    /\ pc = "check_filtered"
    /\ ~SemTitulos
    /\ df_prefixado' = SelectPrefixado(df_filtered)
    /\ df_ipca' = SelectIpca(df_filtered)
    /\ pc' = "check_classes"
    /\ UNCHANGED <<df, data_base_input, vencimento_input, warnings,
                   df_filtered, df_ipca_sorted, tree, f_interp,
                   taxa_ipca_interpolada, df_resultado>>

\* Variant: the Prefixado guard never stops the run.
SemPrefixado_Ignorado == FALSE

SemPrefixado == Empty(df_prefixado)

\* Variant: the Tesouro IPCA+ guard never stops the run.
SemIpca_Ignorado == FALSE

SemIpca == Empty(df_ipca)

WarnSemPrefixado ==
    /\ pc = "check_classes"
    /\ SemPrefixado
    /\ warnings' = Append(warnings, "Nenhum titulo Prefixado disponivel")
    /\ pc' = "stopped"
    /\ UNCHANGED <<df, data_base_input, vencimento_input, df_filtered,
                   df_prefixado, df_ipca, df_ipca_sorted, tree, f_interp,
                   taxa_ipca_interpolada, df_resultado>>

WarnSemIpca ==
    /\ pc = "check_classes"
    /\ ~SemPrefixado
    /\ SemIpca
    /\ warnings' = Append(warnings, "Nenhum titulo Tesouro IPCA+ disponivel")
    /\ pc' = "stopped"
    /\ UNCHANGED <<df, data_base_input, vencimento_input, df_filtered,
                   df_prefixado, df_ipca, df_ipca_sorted, tree, f_interp,
                   taxa_ipca_interpolada, df_resultado>>

WithVencimentoNum(frame) ==
    [i \in 1..Len(frame) |->
        frame[i] @@ [Vencimento_Num |-> VencimentoNum(frame[i].Data_Vencimento)]]

\* Variant: the candidates keep the order in which they were supplied.
SortValues_None(frame) == frame

\* sort_values("Vencimento_Num"): rows of equal key keep their order.
RECURSIVE SortValues(_)
SortValues(frame) ==
    IF frame = <<>> THEN <<>>
    ELSE LET n    == Len(frame)
             init == SortValues(SubSeq(frame, 1, n - 1))
             k    == Cardinality({i \in 1..(n - 1) :
                        init[i].Vencimento_Num <= frame[n].Vencimento_Num})
         IN  SubSeq(init, 1, k) \o <<frame[n]>> \o SubSeq(init, k + 1, n - 1)

ConverterVencimentos ==
    /\ pc = "check_classes"
    /\ ~SemPrefixado
    /\ ~SemIpca
    /\ df_ipca' = WithVencimentoNum(df_ipca)
    /\ df_prefixado' = WithVencimentoNum(df_prefixado)
    /\ df_ipca_sorted' = SortValues(df_ipca')
    /\ tree' = [i \in 1..Len(df_ipca_sorted') |-> df_ipca_sorted'[i].Vencimento_Num]
    /\ pc' = "match"
    /\ UNCHANGED <<df, data_base_input, vencimento_input, warnings,
                   df_filtered, f_interp, taxa_ipca_interpolada, df_resultado>>

\* Variant: the distance is counted in days of a 31-day-month calendar.
Distance_Dias(v, x) ==
    LET Dias(n) == (n \div 10000) * 372 + ((n \div 100) % 100) * 31 + (n % 100)
    IN  (Dias(v) - Dias(x)) * (Dias(v) - Dias(x))

\* Squared Euclidean distance of the 1-d points, as cKDTree (p = 2) compares.
Distance(v, x) == (v - x) * (v - x)

\* The scan of the tree's single leaf: a point replaces the neighbour found
\* so far only when strictly nearer.
RECURSIVE QueryLeaf(_, _, _, _, _)
QueryLeaf(data, x, i, best, bound) ==
    IF i > Len(data) THEN best
    ELSE LET d == Distance(data[i], x)
         IN  IF best = 0 \/ d < bound
             THEN QueryLeaf(data, x, i + 1, i, d)
             ELSE QueryLeaf(data, x, i + 1, best, bound)

\* tree.query([[x]]): the position of the nearest point.
Query(data, x) == QueryLeaf(data, x, 1, 0, 0)

\* Variant: the position found in the tree is looked up in the unsorted frame.
find_nearest_vencimento_SemOrdem(vencimento_num) ==
    IF Len(df_ipca_sorted) = 0 THEN <<NaT, NaN>>
    ELSE LET idx == Query(tree, vencimento_num)
         IN  <<df_ipca[idx].Data_Vencimento, df_ipca[idx].Taxa_Compra_Manha>>

find_nearest_vencimento(vencimento_num) ==
    IF Len(df_ipca_sorted) = 0 THEN <<NaT, NaN>>
    ELSE LET idx == Query(tree, vencimento_num)
         IN  <<df_ipca_sorted[idx].Data_Vencimento,
               df_ipca_sorted[idx].Taxa_Compra_Manha>>

AplicarBusca ==
    /\ pc = "match"
    /\ df_prefixado' =
          [i \in 1..Len(df_prefixado) |->
              LET found == find_nearest_vencimento(df_prefixado[i].Vencimento_Num)
              IN  df_prefixado[i] @@
                  [Vencimento_Mais_Proximo |-> found[1],
                   Taxa_IPCA_Correspondente |-> found[2]]]
    /\ pc' = "formula"
    /\ UNCHANGED <<df, data_base_input, vencimento_input, warnings,
                   df_filtered, df_ipca, df_ipca_sorted, tree, f_interp,
                   taxa_ipca_interpolada, df_resultado>>

\* Variant: the plain difference of the two rates.
InflacaoImplicita_Diferenca(taxa, taxa_ipca) == FSub(taxa, taxa_ipca)

\* ((1 + taxa / 100) / (1 + taxa_ipca / 100) - 1) * 100
InflacaoImplicita(taxa, taxa_ipca) ==
    FMul(FSub(FDiv(FAdd(Rat(1, 1), FDiv(taxa, Rat(100, 1))),
                   FAdd(Rat(1, 1), FDiv(taxa_ipca, Rat(100, 1)))),
              Rat(1, 1)),
         Rat(100, 1))

CalcularImplicita ==
    /\ pc = "formula"
    /\ df_prefixado' =
          [i \in 1..Len(df_prefixado) |->
              df_prefixado[i] @@
              [Inflacao_Implicita |->
                  InflacaoImplicita(df_prefixado[i].Taxa_Compra_Manha,
                                    df_prefixado[i].Taxa_IPCA_Correspondente)]]
    /\ pc' = "interp"
    /\ UNCHANGED <<df, data_base_input, vencimento_input, warnings,
                   df_filtered, df_ipca, df_ipca_sorted, tree, f_interp,
                   taxa_ipca_interpolada, df_resultado>>

\* interp1d(x, y): the observed points, ordered by x.
interp1d(frame) ==
    [i \in 1..Len(frame) |->
        <<frame[i].Vencimento_Num, frame[i].Taxa_Compra_Manha>>]

\* numpy.searchsorted(x, x_new), side "left": how many x lie below x_new.
SearchSorted(points, x_new) ==
    Cardinality({i \in 1..Len(points) : points[i][1] < x_new})

Clip(i, lo, hi) == IF i < lo THEN lo ELSE IF i > hi THEN hi ELSE i

\* Variant: outside the observed range the end value is returned.
CallLinear_Clamp(points, x_new) ==
    LET n  == Len(points)
        hi == Clip(SearchSorted(points, x_new), 1, n - 1) + 1
        lo == hi - 1
    IN  IF x_new < points[1][1] THEN points[1][2]
        ELSE IF x_new > points[n][1] THEN points[n][2]
        ELSE FAdd(FMul(FDiv(FSub(points[hi][2], points[lo][2]),
                            Rat(points[hi][1] - points[lo][1], 1)),
                       Rat(x_new - points[lo][1], 1)),
                  points[lo][2])

\* interp1d._call_linear with fill_value = "extrapolate": no bounds check.
CallLinear(points, x_new) ==
    LET hi    == Clip(SearchSorted(points, x_new), 1, Len(points) - 1) + 1
        lo    == hi - 1
        x_lo  == points[lo][1]
        x_hi  == points[hi][1]
        y_lo  == points[lo][2]
        y_hi  == points[hi][2]
        slope == FDiv(FSub(y_hi, y_lo), Rat(x_hi - x_lo, 1))
    IN  FAdd(FMul(slope, Rat(x_new - x_lo, 1)), y_lo)

\* int(vencimento_input.strftime("%Y%m%d"))
vencimento_input_num == VencimentoNum(vencimento_input)

\* ((1 + taxa / 100) / (1 + taxa_interpolada / 100) - 1) * 100
InflacaoInterpolada(taxa, taxa_interpolada) ==
    FMul(FSub(FDiv(FAdd(Rat(1, 1), FDiv(taxa, Rat(100, 1))),
                   FAdd(Rat(1, 1), FDiv(taxa_interpolada, Rat(100, 1)))),
              Rat(1, 1)),
         Rat(100, 1))

PodeInterpolar == Len(df_ipca_sorted) >= 2

Interpolar ==
    /\ pc = "interp"
    /\ PodeInterpolar
    /\ f_interp' = interp1d(df_ipca_sorted)
    /\ taxa_ipca_interpolada' = CallLinear(f_interp', vencimento_input_num)
    /\ df_prefixado' =
          [i \in 1..Len(df_prefixado) |->
              df_prefixado[i] @@
              [Inflacao_Interpolada |->
                  InflacaoInterpolada(df_prefixado[i].Taxa_Compra_Manha,
                                      taxa_ipca_interpolada')]]
    /\ pc' = "resultado"
    /\ UNCHANGED <<df, data_base_input, vencimento_input, warnings,
                   df_filtered, df_ipca, df_ipca_sorted, tree, df_resultado>>

SemInterpolacao ==
    /\ pc = "interp"
    /\ ~PodeInterpolar
    /\ df_prefixado' =
          [i \in 1..Len(df_prefixado) |->
              df_prefixado[i] @@ [Inflacao_Interpolada |-> NaN]]
    /\ pc' = "resultado"
    /\ UNCHANGED <<df, data_base_input, vencimento_input, warnings,
                   df_filtered, df_ipca, df_ipca_sorted, tree, f_interp,
                   taxa_ipca_interpolada, df_resultado>>

\* The eight columns of the final table, two of them renamed.
ResultadoRow(row) ==
    [idx |-> row.idx,
     Data_Base |-> row.Data_Base,
     Tipo_Titulo |-> row.Tipo_Titulo,
     Data_Vencimento |-> row.Data_Vencimento,
     Taxa_Prefixada_Correspondente |-> row.Taxa_Compra_Manha,
     Vencimento_Mais_Proximo |-> row.Vencimento_Mais_Proximo,
     Taxa_IPCA_Correspondente |-> row.Taxa_IPCA_Correspondente,
     Inflacao_Implicita |-> row.Inflacao_Implicita,
     Inflacao_Interpolada |-> row.Inflacao_Interpolada]

\* Variant: rows repeating an earlier row's maturity are dropped.
Resultado_SemDuplicados(frame) ==
    LET keep == SelectSeq([i \in 1..Len(frame) |-> i],
                          LAMBDA i : \A j \in 1..(i - 1) :
                              frame[j].Data_Vencimento # frame[i].Data_Vencimento)
    IN  [i \in 1..Len(keep) |-> ResultadoRow(frame[keep[i]])]

\* df_prefixado[[...]].copy() with the renamed columns.
Resultado(frame) == [i \in 1..Len(frame) |-> ResultadoRow(frame[i])]

CriarResultado ==
    /\ pc = "resultado"
    /\ df_resultado' = Resultado(df_prefixado)
    /\ pc' = "done"
    /\ UNCHANGED <<df, data_base_input, vencimento_input, warnings,
                   df_filtered, df_prefixado, df_ipca, df_ipca_sorted, tree,
                   f_interp, taxa_ipca_interpolada>>

Next ==
    \/ FilterData
    \/ WarnSemTitulos
    \/ SepararTitulos
    \/ WarnSemPrefixado
    \/ WarnSemIpca
    \/ ConverterVencimentos
    \/ AplicarBusca
    \/ CalcularImplicita
    \/ Interpolar
    \/ SemInterpolacao
    \/ CriarResultado

Spec == Init /\ [][Next]_vars

---------------------------------------------------------------------------
(* what the properties below are stated over *)

Rows(frame) == {frame[i] : i \in 1..Len(frame)}

\* The rows of the loaded table on the selected reference date.
DateRows == SelectSeq(df, LAMBDA row : row.Data_Base = data_base_input)

\* The type names of the loaded tables that name a fixed-rate bond without
\* semi-annual coupons, and those that end with Tesouro IPCA+, in any case.
FixedNames == {"Tesouro Prefixado", "TESOURO PREFIXADO"}

LinkedNames == {"Tesouro IPCA+", "tesouro ipca+"}

FixedRows == SelectSeq(DateRows, LAMBDA row : row.Tipo_Titulo \in FixedNames)

LinkedRows == SelectSeq(DateRows, LAMBDA row : row.Tipo_Titulo \in LinkedNames)

Matched == pc \in {"formula", "interp", "resultado", "done"}

Interpolated == pc \in {"resultado", "done"}

\* 100 * (f - i) / (100 + i) for finite rates f and i, as one fraction.
ClosedForm(f, i) ==
    Rat(100 * (f.n * i.d - f.d * i.n), f.d * (100 * i.d + i.n))

\* The formula's value for any float in place of the counterpart rate.
Expected(f, i) ==
    IF IsNaN(i) THEN NaN
    ELSE IF i.k = "inf" THEN Rat(-100, 1)
    ELSE ClosedForm(f, i)

\* A finite value in ten-thousandths, rounded half up.
Round4(a) == (2 * 10000 * a.n + a.d) \div (2 * a.d)

---------------------------------------------------------------------------
\* C1: every row of the result carries the implied inflation
\* ((1 + fixed/100) / (1 + ipca/100) - 1) * 100 of its own rate and the rate
\* of the inflation-linked bond matched to it, and, when an interpolated rate
\* was computed, the same formula of the interpolated rate; the value is
\* exact (fixed 10.50 and matched 6.00 give 4.2453 to four decimals).
C1_Formula ==
    pc = "done" =>
        \A i \in 1..Len(df_resultado) :
            LET row == df_resultado[i]
                f   == row.Taxa_Prefixada_Correspondente
                m   == row.Taxa_IPCA_Correspondente
            IN  /\ \E c \in Rows(LinkedRows) :
                      /\ c.Data_Vencimento = row.Vencimento_Mais_Proximo
                      /\ c.Taxa_Compra_Manha = m
                /\ row.Inflacao_Implicita = ClosedForm(f, m)
                /\ (f = Rat(1050, 100) /\ m = Rat(600, 100))
                      => Round4(row.Inflacao_Implicita) = 42453
                /\ Len(LinkedRows) >= 2
                      => row.Inflacao_Interpolada = Expected(f, taxa_ipca_interpolada)

C1_Witness ==
    /\ pc = "done"
    /\ \E i \in 1..Len(df_resultado) :
          /\ df_resultado[i].Taxa_Prefixada_Correspondente = Rat(1050, 100)
          /\ df_resultado[i].Taxa_IPCA_Correspondente = Rat(600, 100)
          /\ IsFinite(taxa_ipca_interpolada)
          /\ IsFinite(df_resultado[i].Inflacao_Interpolada)
          /\ df_resultado[i].Inflacao_Interpolada # df_resultado[i].Inflacao_Implicita

---------------------------------------------------------------------------
\* C2: the bond matched to a fixed-rate row is a row of the inflation-linked
\* subset of the same reference date whose YYYYMMDD maturity is at least as
\* near, in integer distance, as that of every other row of the subset, and
\* the matched rate is that row's purchase rate.
C2_Nearest ==
    Matched =>
        \A i \in 1..Len(df_prefixado) :
            LET row == df_prefixado[i]
                m   == VencimentoNum(row.Data_Vencimento)
            IN  \E c \in Rows(LinkedRows) :
                    /\ c.Data_Vencimento = row.Vencimento_Mais_Proximo
                    /\ c.Taxa_Compra_Manha = row.Taxa_IPCA_Correspondente
                    /\ \A o \in Rows(LinkedRows) :
                          Abs(VencimentoNum(c.Data_Vencimento) - m)
                             <= Abs(VencimentoNum(o.Data_Vencimento) - m)

\* 2026-12-31 is matched to 2026-06-30 (601 away as integers) although
\* 2027-01-01, one calendar day away, is a candidate.
C2_Witness ==
    /\ Matched
    /\ \E i \in 1..Len(df_prefixado) :
          /\ df_prefixado[i].Data_Vencimento = Data(2026, 12, 31)
          /\ df_prefixado[i].Vencimento_Mais_Proximo = Data(2026, 6, 30)
          /\ \E o \in Rows(LinkedRows) : o.Data_Vencimento = Data(2027, 1, 1)

---------------------------------------------------------------------------
\* C3: a result table exists only when the rows of the date, the fixed-rate
\* rows and the inflation-linked rows are all non-empty; otherwise the run
\* stops before any conversion, matching, interpolation or formula step with
\* exactly one warning: no bonds for the date, else no Prefixado, else no
\* Tesouro IPCA+.
NothingComputed ==
    /\ df_ipca_sorted = <<>>
    /\ tree = <<>>
    /\ f_interp = <<>>
    /\ df_resultado = <<>>
    /\ \A i \in 1..Len(df_prefixado) :
          DOMAIN df_prefixado[i] =
             {"idx", "Data_Base", "Tipo_Titulo", "Data_Vencimento", "Taxa_Compra_Manha"}

C3_Guards ==
    /\ (pc \in {"match", "formula", "interp", "resultado", "done"}
          \/ df_resultado # <<>>)
         => /\ DateRows # <<>>
            /\ FixedRows # <<>>
            /\ LinkedRows # <<>>
            /\ warnings = <<>>
    /\ pc = "stopped" =>
         /\ NothingComputed
         /\ warnings =
              IF DateRows = <<>> THEN <<"Nenhum titulo disponivel">>
              ELSE IF FixedRows = <<>> THEN <<"Nenhum titulo Prefixado disponivel">>
              ELSE <<"Nenhum titulo Tesouro IPCA+ disponivel">>
         /\ DateRows = <<>> \/ FixedRows = <<>> \/ LinkedRows = <<>>
    /\ pc \in {"filter", "check_filtered", "check_classes"} =>
         /\ NothingComputed
         /\ warnings = <<>>

\* Neither class has a row on the date: only the Prefixado warning is given.
C3_Witness ==
    /\ pc = "stopped"
    /\ DateRows # <<>>
    /\ FixedRows = <<>>
    /\ LinkedRows = <<>>
    /\ warnings = <<"Nenhum titulo Prefixado disponivel">>

---------------------------------------------------------------------------
\* C4: the result table has one row per fixed-rate row of the selected
\* date, in the same order and none twice, and every row carries one matched
\* inflation-linked bond (maturity and rate) and one implied inflation.
C4_OneRowEach ==
    pc = "done" =>
        /\ Len(df_resultado) = Len(FixedRows)
        /\ \A i \in 1..Len(df_resultado) :
              /\ df_resultado[i].idx = FixedRows[i].idx
              /\ df_resultado[i].Data_Vencimento = FixedRows[i].Data_Vencimento
              /\ df_resultado[i].Taxa_Prefixada_Correspondente
                    = FixedRows[i].Taxa_Compra_Manha
              /\ \E c \in Rows(LinkedRows) :
                    /\ c.Data_Vencimento = df_resultado[i].Vencimento_Mais_Proximo
                    /\ c.Taxa_Compra_Manha = df_resultado[i].Taxa_IPCA_Correspondente
              /\ IsFinite(df_resultado[i].Inflacao_Implicita)
        /\ \A i, j \in 1..Len(df_resultado) :
              df_resultado[i].idx = df_resultado[j].idx => i = j

\* Two fixed-rate rows of one maturity are both in the table.
C4_Witness ==
    /\ pc = "done"
    /\ Len(df_resultado) >= 2
    /\ df_resultado[1].Data_Vencimento = df_resultado[2].Data_Vencimento
    /\ Len(df) > Len(df_resultado) + 1

---------------------------------------------------------------------------
\* C5: with two or more inflation-linked rows, no two of them of the same
\* maturity, the interpolated rate at the target t lies on the straight
\* line through the two neighbouring observed points that bracket t, and
\* for t below the smallest (above the largest) maturity on the line through
\* the two smallest (largest) points; (20260101, 5.0) and (20280101, 6.0)
\* give 5.5 at 20270101 and 7.0 at 20300101.
Points == { <<VencimentoNum(c.Data_Vencimento), c.Taxa_Compra_Manha>> :
              c \in Rows(LinkedRows) }

\* No two inflation-linked rows of the date share a maturity.
DistinctMaturities ==
    \A i, j \in 1..Len(LinkedRows) :
        LinkedRows[i].Data_Vencimento = LinkedRows[j].Data_Vencimento => i = j

\* No observed maturity lies strictly between those of p and q.
Neighbours(p, q) ==
    /\ p[1] < q[1]
    /\ \A o \in Points : ~(p[1] < o[1] /\ o[1] < q[1])

\* (t, r) is on the line through p and q.
OnLine(p, q, t, r) ==
    /\ IsFinite(r)
    /\ FMul(FSub(r, p[2]), Rat(q[1] - p[1], 1))
          = FMul(FSub(q[2], p[2]), Rat(t - p[1], 1))

C5_Interpolation ==
    (Interpolated /\ Len(LinkedRows) >= 2 /\ DistinctMaturities) =>
        LET t == VencimentoNum(vencimento_input)
            r == taxa_ipca_interpolada
        IN  /\ \E p, q \in Points :
                  /\ Neighbours(p, q)
                  /\ \/ p[1] <= t /\ t <= q[1]
                     \/ t < p[1] /\ \A o \in Points : p[1] <= o[1]
                     \/ t > q[1] /\ \A o \in Points : o[1] <= q[1]
                  /\ OnLine(p, q, t, r)
            /\ Points = { <<20260101, Rat(5, 1)>>, <<20280101, Rat(6, 1)>> } =>
                  /\ t = 20270101 => r = Rat(11, 2)
                  /\ t = 20300101 => r = Rat(7, 1)

\* Three points not on one line, the target beyond the last of them.
C5_Witness ==
    /\ pc = "done"
    /\ DistinctMaturities
    /\ Points = { <<20260101, Rat(5, 1)>>, <<20260630, Rat(5, 1)>>,
                  <<20270101, Rat(6, 1)>> }
    /\ vencimento_input = Data(2030, 1, 1)

---------------------------------------------------------------------------
\* C6: with fewer than two distinct inflation-linked maturities (rows that
\* all share one maturity included) no interpolation line is built and the
\* interpolated implied inflation of every row is the missing value, while
\* the table is still produced with the implied inflation.
C6_FewerThanTwoPoints ==
    (Interpolated /\ Cardinality({p[1] : p \in Points}) < 2) =>
        /\ f_interp = <<>>
        /\ \A i \in 1..Len(df_prefixado) :
              /\ IsNaN(df_prefixado[i].Inflacao_Interpolada)
              /\ IsFinite(df_prefixado[i].Inflacao_Implicita)

---------------------------------------------------------------------------
\* C7: the result table holds exactly the rows of the loaded table whose
\* reference date equals the selected one and whose type name matches
\* Prefixado and not Juros Semestrais, in any case; the candidates used for
\* matching are only rows of that date whose name ends with Tesouro IPCA+.
C7_Filter ==
    /\ pc = "done" =>
          /\ {row.idx : row \in Rows(df_resultado)} =
                {row.idx : row \in {r \in Rows(df) :
                    /\ r.Data_Base = data_base_input
                    /\ r.Tipo_Titulo \in FixedNames}}
          /\ \A row \in Rows(df_resultado) :
                /\ df[row.idx].Data_Base = row.Data_Base
                /\ df[row.idx].Tipo_Titulo = row.Tipo_Titulo
                /\ row.Data_Base = data_base_input
                /\ row.Tipo_Titulo \in FixedNames
                /\ row.Tipo_Titulo \notin LinkedNames
    /\ \A c \in Rows(df_ipca) \cup Rows(df_ipca_sorted) :
          /\ c.Data_Base = data_base_input
          /\ c.Tipo_Titulo \in LinkedNames
          /\ df[c.idx].Tipo_Titulo = c.Tipo_Titulo
          /\ df[c.idx].Data_Base = c.Data_Base
    /\ Matched => {c.idx : c \in Rows(df_ipca_sorted)} = {c.idx : c \in Rows(LinkedRows)}

\* Upper-case fixed-rate and lower-case inflation-linked names are taken, a
\* semi-annual-coupon row of the same date is left out.
C7_Witness ==
    /\ pc = "done"
    /\ \E row \in Rows(df_resultado) : row.Tipo_Titulo = "TESOURO PREFIXADO"
    /\ \E c \in Rows(df_ipca_sorted) : c.Tipo_Titulo = "tesouro ipca+"
    /\ \E r \in Rows(df) :
          /\ r.Data_Base = data_base_input
          /\ r.Tipo_Titulo = "Tesouro Prefixado com Juros Semestrais"

---------------------------------------------------------------------------
\* C8: a fixed-rate row whose maturity is the maturity of an
\* inflation-linked row of the same date is matched at distance zero, to a
\* row of its own maturity, and its implied inflation is the formula of its
\* rate and that matched row's rate.
C8_ExactMatch ==
    pc = "done" =>
        \A row \in Rows(df_resultado) :
            (\E c \in Rows(LinkedRows) : c.Data_Vencimento = row.Data_Vencimento) =>
                /\ row.Vencimento_Mais_Proximo = row.Data_Vencimento
                /\ VencimentoNum(row.Vencimento_Mais_Proximo)
                      - VencimentoNum(row.Data_Vencimento) = 0
                /\ \E c \in Rows(LinkedRows) :
                      /\ c.Data_Vencimento = row.Data_Vencimento
                      /\ c.Taxa_Compra_Manha = row.Taxa_IPCA_Correspondente
                      /\ row.Inflacao_Implicita
                            = ClosedForm(row.Taxa_Prefixada_Correspondente,
                                         c.Taxa_Compra_Manha)

\* The row of equal maturity is not the first candidate supplied and other
\* candidates have another rate.
C8_Witness ==
    /\ pc = "done"
    /\ Len(LinkedRows) >= 2
    /\ \E row \in Rows(df_resultado) :
          /\ row.Vencimento_Mais_Proximo = row.Data_Vencimento
          /\ LinkedRows[1].Data_Vencimento # row.Data_Vencimento
          /\ LinkedRows[1].Taxa_Compra_Manha # row.Taxa_IPCA_Correspondente

---------------------------------------------------------------------------
\* C9: the match does not depend on the order of the candidates: supplied
\* in the given order or reversed, the same nearest maturity is matched, and
\* the same row unless another row is as near; among rows as near, the one
\* matched comes first in the candidates sorted by maturity.
Reverse(s) == [i \in 1..Len(s) |-> s[Len(s) + 1 - i]]

\* The candidate the script's sort and tree query return for maturity m.
NearestOf(candidates, m) ==
    LET sorted == SortValues(candidates)
        data   == [i \in 1..Len(sorted) |-> sorted[i].Vencimento_Num]
    IN  sorted[Query(data, m)]

C9_OrderIndependent ==
    Matched =>
        \A i \in 1..Len(df_prefixado) :
            LET row == df_prefixado[i]
                m   == row.Vencimento_Num
                fwd == NearestOf(df_ipca, m)
                rev == NearestOf(Reverse(df_ipca), m)
                gap == Abs(fwd.Vencimento_Num - m)
                tied == {c \in Rows(df_ipca) : Abs(c.Vencimento_Num - m) = gap}
            IN  /\ row.Vencimento_Mais_Proximo = fwd.Data_Vencimento
                /\ row.Taxa_IPCA_Correspondente = fwd.Taxa_Compra_Manha
                /\ rev.Data_Vencimento = fwd.Data_Vencimento
                /\ Cardinality(tied) = 1 => rev = fwd
                /\ \A c \in Rows(df_ipca) : Abs(c.Vencimento_Num - m) >= gap
                /\ \A c \in tied : fwd.Vencimento_Num <= c.Vencimento_Num

\* 2027-01-01 is as far from 2026-01-01 as from 2028-01-01; the later one is
\* supplied first and the earlier one is matched.
C9_Witness ==
    /\ Matched
    /\ Len(df_ipca) >= 2
    /\ df_ipca[1].Data_Vencimento = Data(2028, 1, 1)
    /\ \E i \in 1..Len(df_prefixado) :
          /\ df_prefixado[i].Data_Vencimento = Data(2027, 1, 1)
          /\ df_prefixado[i].Vencimento_Mais_Proximo = Data(2026, 1, 1)

---------------------------------------------------------------------------
\* C10: the nearest-maturity search runs only over a non-empty candidate
\* frame, so no matched maturity or matched rate is ever missing, and a date
\* with fixed-rate rows but no inflation-linked row ends in the
\* Tesouro IPCA+ warning.
C10_NoMissingMatch ==
    /\ pc \in {"match", "formula", "interp", "resultado", "done"} =>
          /\ Len(df_ipca_sorted) > 0
          /\ Len(tree) = Len(df_ipca_sorted)
    /\ Matched =>
          \A i \in 1..Len(df_prefixado) :
              /\ df_prefixado[i].Vencimento_Mais_Proximo # NaT
              /\ ~IsNaN(df_prefixado[i].Taxa_IPCA_Correspondente)
    /\ \A row \in Rows(df_resultado) :
          /\ row.Vencimento_Mais_Proximo # NaT
          /\ ~IsNaN(row.Taxa_IPCA_Correspondente)
    /\ (FixedRows # <<>> /\ LinkedRows = <<>>) =>
          /\ pc \in {"filter", "check_filtered", "check_classes", "stopped"}
          /\ pc = "stopped" =>
                warnings = <<"Nenhum titulo Tesouro IPCA+ disponivel">>

\* Fixed-rate rows but no inflation-linked row on the date: the warning.
C10_Witness ==
    /\ pc = "stopped"
    /\ FixedRows # <<>>
    /\ LinkedRows = <<>>
    /\ warnings = <<"Nenhum titulo Tesouro IPCA+ disponivel">>

=============================================================================
